---- MODULE Spec2Model ----
(***************************************************************************)
(* A model of parse_logs.js, the WordPress Trac log parser.                *)
(*                                                                         *)
(* The script is one async.series of four tasks: download the log page,    *)
(* buildChangesets, gatherComponents, buildOutput.  The only concurrency   *)
(* is inside gatherComponents, which issues one HTTP request per related   *)
(* ticket of every changeset and continues when all have called back.      *)
(*                                                                         *)
(* A JavaScript string is modelled as a sequence of one-character strings, *)
(* so that the regular expressions, trim, split, join, toLowerCase and     *)
(* localeCompare of the script are computed character by character.        *)
(*                                                                         *)
(* TextSpec applies the text functions on their own (the description steps *)
(* of buildChangesets, and cleanProps of the later version of the script)  *)
(* to props segments and log texts drawn from bounded sets.                *)
(***************************************************************************)
EXTENDS Integers, Sequences, FiniteSets, TLC

VARIABLES
    pc,               \* position of async.series: which task is running
    logHTML,          \* var logHTML: the rows tr.verbose of the downloaded page
    changesets,       \* var changesets: the changeset objects, in push order
    pending,          \* requests issued by gatherComponents, not yet called back
    completed,        \* async.each: completed[c] counts relatedCallback() calls
    changesetsDone,   \* async.each: count of changesetCallback() calls
    component,        \* var component of gatherComponents, shared by callbacks
    categories,       \* var categories of buildOutput, in key creation order
    changesetOutput,  \* the sections written by buildOutput, in output order
    props,            \* var props of buildOutput after sort and uniq
    propsOutput,      \* the credit line
    rendered,         \* how many times buildOutput has run
    fetched,          \* history: fetched[c][r] is the outcome of the request
                      \* for changesets[c].related[r]
    errorReported,    \* whether console.error('Error downloading:', err) has run
    rawText,          \* a text handed to the text functions of the script
    parsed            \* what those functions made of rawText

vars == <<pc, logHTML, changesets, pending, completed, changesetsDone, component,
          categories, changesetOutput, props, propsOutput, rendered, fetched,
          errorReported, rawText, parsed>>

\* the variables of the text functions, which the tasks of async.series leave alone
textVars == <<rawText, parsed>>

(***************************************************************************)
(* Bounds of the model.                                                    *)
(***************************************************************************)
MaxRows == 4
\* a props segment names at most MaxNames contributors
MaxNames == 3
\* a log text has at most MaxLines lines after its first
MaxLines == 3

(***************************************************************************)
(* JavaScript strings.                                                     *)
(***************************************************************************)
Upper == <<"A","B","C","D","E","F","G","H","I","J","K","L","M",
           "N","O","P","Q","R","S","T","U","V","W","X","Y","Z">>
Lower == <<"a","b","c","d","e","f","g","h","i","j","k","l","m",
           "n","o","p","q","r","s","t","u","v","w","x","y","z">>
Digits == <<"0","1","2","3","4","5","6","7","8","9">>

IndexIn(c, seq) ==
    IF \E i \in 1..Len(seq) : seq[i] = c
    THEN CHOOSE i \in 1..Len(seq) : seq[i] = c
    ELSE 0

\* String.prototype.toLowerCase, one character
toLowerChar(c) == IF IndexIn(c, Upper) > 0 THEN Lower[IndexIn(c, Upper)] ELSE c

\* String.prototype.toLowerCase
toLowerCase(s) == [i \in 1..Len(s) |-> toLowerChar(s[i])]

\* \s of a regular expression, and the characters trim() strips
IsSpace(c) == c \in {" ", "\n", "\t", "\r"}

\* the characters the regular expression . does not match
IsLineTerminator(c) == c \in {"\n", "\r"}

\* String.prototype.trim
trim(s) ==
    LET keep == {i \in 1..Len(s) : ~IsSpace(s[i])}
    IN  IF keep = {} THEN <<>>
        ELSE LET a == CHOOSE i \in keep : \A j \in keep : i <= j
                 b == CHOOSE i \in keep : \A j \in keep : j <= i
             IN  SubSeq(s, a, b)

\* Array.prototype.join
RECURSIVE join(_, _)
join(arr, sep) ==
    IF arr = <<>> THEN <<>>
    ELSE IF Len(arr) = 1 THEN arr[1]
    ELSE arr[1] \o sep \o join(Tail(arr), sep)

\* (.*) from position i: the last position of the greedy match, i-1 when empty
DotStarEnd(s, i) ==
    LET stops == {j \in i..Len(s) : IsLineTerminator(s[j])}
    IN  IF stops = {} THEN Len(s)
        ELSE (CHOOSE j \in stops : \A k \in stops : j <= k) - 1

\* whether word (lower case) matches s at position i under the flag /i
MatchesAtI(s, i, word) ==
    /\ i >= 1
    /\ i + Len(word) - 1 <= Len(s)
    /\ \A k \in 1..Len(word) : toLowerChar(s[i + k - 1]) = word[k]

Min(S) == CHOOSE i \in S : \A j \in S : i <= j

\* s with the positions a..b removed
Cut(s, a, b) == SubSeq(s, 1, a - 1) \o SubSeq(s, b + 1, Len(s))

(***************************************************************************)
(* The log page.  A row tr.verbose is modelled by the cells the script     *)
(* reads from it: the text of td.rev, the text of td.author, and the child *)
(* nodes of td.log (text, <tt> code segments, <a class="ticket"> links).   *)
(***************************************************************************)
Text(s)   == [tag |-> "text", text |-> s]
Code(s)   == [tag |-> "tt", text |-> s]
Ticket(s) == [tag |-> "a.ticket", text |-> s]

MetaRow(rev, author) == [rev |-> rev, author |-> author, log |-> <<>>]
LogRow(nodes)        == [rev |-> <<>>, author |-> <<>>, log |-> nodes]

\* "@1" / "Bob"
RowBob == MetaRow(<<"@","1">>, <<"B","o","b">>)
\* "@2" / "al"
RowAl  == MetaRow(<<" ","@","2">>, <<"a","l"," ">>)
\* "Fix <tt>x</tt>."
RowFix == LogRow(<< Text(<<"F","i","x"," ">>), Code(<<"x">>), Text(<<".">>) >>)
\* "Do y.\n\n\n\nProps bob, al.\nFixes <a>#7</a>, <a>#3</a>."
RowDo  == LogRow(<< Text(<<"D","o"," ","y",".","\n","\n","\n","\n",
                          "P","r","o","p","s"," ","b","o","b",","," ","a","l",".",
                          "\n","F","i","x","e","s"," ">>),
                    Ticket(<<"#","7">>), Text(<<",", " ">>),
                    Ticket(<<"#","3">>), Text(<<".">>) >>)

\* the first row of a changeset carries td.rev and td.author, the second td.log
MetaRows == {RowBob, RowAl}
DescRows == {RowFix, RowDo}
Rows     == MetaRows \cup DescRows

RECURSIVE SeqsUpTo(_, _)
SeqsUpTo(S, n) ==
    IF n = 0 THEN {<<>>}
    ELSE LET shorter == SeqsUpTo(S, n - 1)
         IN  shorter \cup {Append(q, x) : q \in {r \in shorter : Len(r) = n - 1}, x \in S}

\* the pages the log service may answer with: the two rows of each changeset
\* in turn, the last changeset possibly cut after its first row
LogPages ==
    {page \in SeqsUpTo(Rows, MaxRows) :
        \A i \in 1..Len(page) :
            IF i % 2 = 1 THEN page[i] \in MetaRows ELSE page[i] \in DescRows}

\* the text $.load(body)('#h_component').next('td').text().trim() may give:
\* the component names "Ed" and "7"
ComponentEd == <<"E","d">>
Component7  == <<"7">>
Components  == {ComponentEd, Component7}

(***************************************************************************)
(* buildChangesets: one changeset from a pair of rows.                     *)
(***************************************************************************)
\* .replace(/@(.*)/, '[$1]')
replaceRevision(s) ==
    LET at == {i \in 1..Len(s) : s[i] = "@"}
    IN  IF at = {} THEN s
        ELSE LET i == Min(at)
                 e == DotStarEnd(s, i + 1)
             IN  SubSeq(s, 1, i - 1) \o <<"[">> \o SubSeq(s, i + 1, e) \o <<"]">>
                     \o SubSeq(s, e + 1, Len(s))

\* .replace(/#(.*)/, '$1')
replaceTicket(s) ==
    LET at == {i \in 1..Len(s) : s[i] = "#"}
    IN  IF at = {} THEN s ELSE Cut(s, Min(at), Min(at))

\* the grave accent U+0060, which a TLA+ string cannot hold
Backtick == "U+0060"

\* $(this).replaceWith(Backtick + $(this).text() + Backtick) for every <tt>
reAddCode(nodes) ==
    [i \in 1..Len(nodes) |->
        IF nodes[i].tag = "tt"
        THEN Text(<<Backtick>> \o nodes[i].text \o <<Backtick>>)
        ELSE nodes[i]]

\* description.text(): the text of every child node, in document order
RECURSIVE text(_)
text(nodes) == IF nodes = <<>> THEN <<>> ELSE Head(nodes).text \o text(Tail(nodes))

\* $(description).find('a.ticket').each(...): the ticket links, in document order
RECURSIVE relatedOf(_)
relatedOf(nodes) ==
    IF nodes = <<>> THEN <<>>
    ELSE IF Head(nodes).tag = "a.ticket"
         THEN <<replaceTicket(trim(Head(nodes).text))>> \o relatedOf(Tail(nodes))
         ELSE relatedOf(Tail(nodes))

\* .replace(/[\n|, ]Fixes(.*)/i, '')
replaceFixes(s) ==
    LET at == {i \in 1..Len(s) : /\ s[i] \in {"\n", "|", ",", " "}
                                 /\ MatchesAtI(s, i + 1, <<"f","i","x","e","s">>)}
    IN  IF at = {} THEN s ELSE Cut(s, Min(at), DotStarEnd(s, Min(at) + 6))

\* .replace(/\nSee(.*)/i, '')
replaceSee(s) ==
    LET at == {i \in 1..Len(s) : /\ s[i] = "\n"
                                 /\ MatchesAtI(s, i + 1, <<"s","e","e">>)}
    IN  IF at = {} THEN s ELSE Cut(s, Min(at), DotStarEnd(s, Min(at) + 4))

\* the positions where /\nProps(.*)./i matches: the final . needs one character
propsRegexAt(s) ==
    {i \in 1..Len(s) : /\ s[i] = "\n"
                       /\ MatchesAtI(s, i + 1, <<"p","r","o","p","s">>)
                       /\ DotStarEnd(s, i + 6) >= i + 6}

\* .split(/\s*,\s*/) of a trimmed string: cut at the commas, and the white
\* space around each comma belongs to the separator
RECURSIVE splitComma(_)
splitComma(s) ==
    LET at == {i \in 1..Len(s) : s[i] = ","}
    IN  IF at = {} THEN <<trim(s)>>
        ELSE <<trim(SubSeq(s, 1, Min(at) - 1))>>
                 \o splitComma(SubSeq(s, Min(at) + 1, Len(s)))

\* props = description.match(propsRegex); props[1].trim().split(/\s*,\s*/)
propsOf(s) ==
    LET at == propsRegexAt(s)
    IN  IF at = {} THEN <<>>
        ELSE splitComma(trim(SubSeq(s, Min(at) + 6, DotStarEnd(s, Min(at) + 6) - 1)))

\* .replace(propsRegex, '')
replaceProps(s) ==
    LET at == propsRegexAt(s)
    IN  IF at = {} THEN s ELSE Cut(s, Min(at), DotStarEnd(s, Min(at) + 6))

\* .replace(/\n\n\n+/g, '\n\n')
RECURSIVE replaceNewlines(_)
replaceNewlines(s) ==
    LET at == {i \in 1..Len(s) - 2 : s[i] = "\n" /\ s[i + 1] = "\n" /\ s[i + 2] = "\n"}
    IN  IF at = {} THEN s
        ELSE LET i == Min(at)
                 after == {j \in i..Len(s) : s[j] # "\n"}
                 e == IF after = {} THEN Len(s) ELSE Min(after) - 1
             IN  SubSeq(s, 1, i - 1) \o <<"\n", "\n">>
                     \o replaceNewlines(SubSeq(s, e + 1, Len(s)))

\* the body of the for loop: the changeset of rows i and i+1
changesetOf(meta, desc) ==
    LET description == reAddCode(desc.log)
        base == replaceSee(replaceFixes(text(description)))
    IN  [revision    |-> replaceRevision(trim(meta.rev)),
         author      |-> trim(meta.author),
         related     |-> relatedOf(description),
         component   |-> <<>>,
         props       |-> propsOf(base),
         description |-> trim(replaceNewlines(replaceProps(base)))]

\* a loop that advances one row at a time
nextEntry_oneRow(i) == i + 1

\* the changeset of every pair of rows a page can hold, computed once
changesetOfRows == [meta \in Rows, desc \in Rows |-> changesetOf(meta, desc)]

\* i += 2 (0-based i)
nextEntry(i) == i + 2

\* logEntries[i + 1] == null (0-based i)
missingSecondRow(logEntries, i) == i + 1 >= Len(logEntries)

\* for (var i = 0; i < logEntries.length; i += 2) { ... changesets.push(changeset) }
RECURSIVE extractFrom(_, _, _)
extractFrom(logEntries, i, acc) ==
    IF ~(i < Len(logEntries)) THEN acc
    ELSE IF missingSecondRow(logEntries, i) THEN acc
    ELSE extractFrom(logEntries, nextEntry(i),
                     Append(acc, changesetOfRows[logEntries[i + 1], logEntries[i + 2]]))

(***************************************************************************)
(* The HTTP collaborator: what request() hands to its callback.            *)
(***************************************************************************)
Failure(code) == [err |-> FALSE, statusCode |-> code, body |-> <<>>]
NetworkError  == [err |-> TRUE, statusCode |-> 0, body |-> <<>>]
Success(body) == [err |-> FALSE, statusCode |-> 200, body |-> body]

\* the answers to the log request, and to a ticket request
LogResponses    == {NetworkError, Failure(404)} \cup {Success(page) : page \in LogPages}
TicketResponses == {NetworkError, Failure(404)} \cup {Success(name) : name \in Components}

\* !err && response.statusCode === 200
succeeded(response) == ~response.err /\ response.statusCode = 200

(***************************************************************************)
(* buildOutput: the categories object.                                     *)
(***************************************************************************)
\* String(array), the property key an array is converted to
toKey(arr) == join(arr, <<",">>)

\* !category for an array: every object, an empty array too, is truthy
isFalsy(arr) == FALSE

Misc == <<"M","i","s","c">>

\* category = item.component; if (!category) { category = 'Misc'; }
categoryOf(item) == IF isFalsy(item.component) THEN Misc ELSE toKey(item.component)

\* categories is kept as the sequence of its properties [key, items] in the
\* order of their creation; items are indexes into changesets
hasKey(cats, key) == \E k \in 1..Len(cats) : cats[k].key = key

pushItem(cats, key, i) ==
    [k \in 1..Len(cats) |->
        IF cats[k].key = key
        THEN [key |-> key, items |-> Append(cats[k].items, i)]
        ELSE cats[k]]

\* the key the item is pushed under: categories[item.component]
pushKey(item) == toKey(item.component)

\* async.map(changesets, function (item) { ... }): threw is the TypeError of
\* the push when categories[item.component] is undefined
RECURSIVE mapItems(_, _, _)
mapItems(list, i, cats) ==
    IF i > Len(list) THEN [threw |-> FALSE, value |-> cats]
    ELSE LET category == categoryOf(list[i])
             created == IF ~hasKey(cats, category)
                        THEN Append(cats, [key |-> category, items |-> <<>>])
                        ELSE cats
         IN  IF ~hasKey(created, pushKey(list[i]))
             THEN [threw |-> TRUE, value |-> created]
             ELSE mapItems(list, i + 1, pushItem(created, pushKey(list[i]), i))

\* whether a property key is an integer index ("0", "7", "12", not "07")
isIndexKey(key) ==
    /\ key # <<>>
    /\ \A i \in 1..Len(key) : IndexIn(key[i], Digits) > 0
    /\ (Len(key) > 1 => key[1] # "0")

RECURSIVE toNumber(_)
toNumber(key) ==
    IF key = <<>> THEN 0
    ELSE 10 * toNumber(SubSeq(key, 1, Len(key) - 1)) + (IndexIn(key[Len(key)], Digits) - 1)

\* whether property a is enumerated before property b (positions in cats):
\* integer indexes first, in ascending order, then the others as created
keyBefore(cats, a, b) ==
    IF isIndexKey(cats[a].key)
    THEN IF isIndexKey(cats[b].key)
         THEN toNumber(cats[a].key) < toNumber(cats[b].key)
         ELSE TRUE
    ELSE IF isIndexKey(cats[b].key) THEN FALSE ELSE a < b

\* _.each(categories, ...): the properties in the order Object.keys gives
ownKeys(cats) ==
    LET rank(a) == Cardinality({b \in 1..Len(cats) : b # a /\ keyBefore(cats, b, a)})
    IN  [n \in 1..Len(cats) |-> cats[CHOOSE a \in 1..Len(cats) : rank(a) = n - 1]]

(***************************************************************************)
(* buildOutput: the sections.                                              *)
(***************************************************************************)
\* "### " + category[0].component
headingOf(list, category) ==
    <<"#","#","#"," ">> \o toKey(list[category.items[1]].component)

\* '* ' + description.trim() + ' ' + revision + ' ' + '#' + related.join(', #')
lineOf(changeset) ==
    <<"*"," ">> \o trim(changeset.description) \o <<" ">> \o changeset.revision
        \o <<" ">> \o <<"#">> \o join(changeset.related, <<",", " ", "#">>)

\* one section: its heading, and a line for every changeset of the category
sectionOf(list, category) ==
    [heading |-> headingOf(list, category),
     items   |-> category.items,
     lines   |-> [k \in 1..Len(category.items) |-> lineOf(list[category.items[k]])]]

sectionsOf(list, cats) ==
    LET ordered == ownKeys(cats)
    IN  [n \in 1..Len(ordered) |-> sectionOf(list, ordered[n])]

(***************************************************************************)
(* buildOutput: the credits.                                               *)
(***************************************************************************)
\* a collection that leaves the committer out
creditsOf_propsOnly(changeset) == changeset.props

\* props.push(changeset.author); if (changeset.props.length !== 0) props = props.concat(...)
creditsOf(changeset) ==
    IF Len(changeset.props) # 0
    THEN <<changeset.author>> \o changeset.props
    ELSE <<changeset.author>>

\* the pushes of the two nested _.each loops, in the order the sections are written
RECURSIVE collectItems(_, _)
collectItems(list, items) ==
    IF items = <<>> THEN <<>>
    ELSE creditsOf(list[Head(items)]) \o collectItems(list, Tail(items))

RECURSIVE collectProps(_, _)
collectProps(list, sections) ==
    IF sections = <<>> THEN <<>>
    ELSE collectItems(list, Head(sections).items) \o collectProps(list, Tail(sections))

\* the collation weight of a character: letters after digits after the rest
weight(c) ==
    IF IndexIn(c, Lower) > 0 THEN 10 + IndexIn(c, Lower)
    ELSE IF IndexIn(c, Digits) > 0 THEN IndexIn(c, Digits)
    ELSE 0

\* a.localeCompare(b) < 0, for strings already in lower case
RECURSIVE comesBefore(_, _)
comesBefore(a, b) ==
    IF b = <<>> THEN FALSE
    ELSE IF a = <<>> THEN TRUE
    ELSE IF weight(Head(a)) # weight(Head(b)) THEN weight(Head(a)) < weight(Head(b))
    ELSE comesBefore(Tail(a), Tail(b))

\* the comparator: a.toLowerCase().localeCompare(b.toLowerCase()) < 0
compareBefore(a, b) ==
    \E la \in {toLowerCase(a)}, lb \in {toLowerCase(b)} : comesBefore(la, lb)

\* props.sort(comparator): the sort keeps the order of elements that compare equal
RECURSIVE insertSorted(_, _)
insertSorted(sorted, x) ==
    IF sorted = <<>> THEN <<x>>
    ELSE IF compareBefore(x, Head(sorted)) THEN <<x>> \o sorted
    ELSE <<Head(sorted)>> \o insertSorted(Tail(sorted), x)

RECURSIVE sort(_)
sort(arr) ==
    IF arr = <<>> THEN <<>>
    ELSE CHOOSE result \in {insertSorted(front, arr[Len(arr)]) :
                                front \in {sort(SubSeq(arr, 1, Len(arr) - 1))}} : TRUE

\* _.uniq(array, true): an element is dropped when it === the one before it
sameAsPrevious(a, b) == a = b

RECURSIVE uniq(_)
uniq(arr) ==
    IF Len(arr) <= 1 THEN arr
    ELSE LET front == uniq(SubSeq(arr, 1, Len(arr) - 1))
         IN  IF sameAsPrevious(arr[Len(arr)], arr[Len(arr) - 1])
             THEN front
             ELSE Append(front, arr[Len(arr)])

Undefined == <<"u","n","d","e","f","i","n","e","d">>

\* _.last(props), as util.format prints it
last(arr) == IF arr = <<>> THEN Undefined ELSE arr[Len(arr)]

\* _.without(props, value): every element that === value is removed
RECURSIVE without(_, _)
without(arr, value) ==
    IF arr = <<>> THEN <<>>
    ELSE IF Head(arr) = value THEN without(Tail(arr), value)
    ELSE <<Head(arr)>> \o without(Tail(arr), value)

ThanksTo == <<"T","h","a","n","k","s"," ","t","o"," ","@">>
AndAt    == <<",", " ", "a","n","d"," ","@">>
ForTheir == <<" ","f","o","r"," ","t","h","e","i","r"," ",
              "c","o","n","t","r","i","b","u","t","i","o","n","s","!">>

\* util.format('Thanks to @%s, and @%s for their contributions!',
\*             _.without(props, _.last(props)).join(', @'), _.last(props))
formatThanks(arr) ==
    ThanksTo \o join(without(arr, last(arr)), <<",", " ", "@">>) \o AndAt
        \o last(arr) \o ForTheir

(***************************************************************************)
(* The version of the script with cleanProps: its props expression and the *)
(* cleaning of the captured names.                                         *)
(***************************************************************************)
\* the positions of a character in the range a..b of s
PositionsOf(s, c, a, b) == {j \in a..b : j >= 1 /\ j <= Len(s) /\ s[j] = c}

Max(S) == CHOOSE i \in S : \A j \in S : j <= i

\* whether word matches s at position i, case-sensitively
MatchesAt(s, i, word) ==
    /\ i >= 1
    /\ i + Len(word) - 1 <= Len(s)
    /\ \A k \in 1..Len(word) : s[i + k - 1] = word[k]

For == <<"f","o","r">>

\* .replace(/(for.*(,))/ig, ''): from the leftmost for that has a comma after it
\* on its line, the greedy .* runs to the LAST comma of the line; the search
\* goes on after the match
RECURSIVE replaceForComma(_)
replaceForComma(s) ==
    LET at == {i \in 1..Len(s) : /\ MatchesAtI(s, i, For)
                                 /\ PositionsOf(s, ",", i + 3, DotStarEnd(s, i + 3)) # {}}
    IN  IF at = {} THEN s
        ELSE LET i == Min(at)
                 e == Max(PositionsOf(s, ",", i + 3, DotStarEnd(s, i + 3)))
             IN  SubSeq(s, 1, i - 1) \o replaceForComma(SubSeq(s, e + 1, Len(s)))

\* .replace(/(for.*(\.))/, ''): the first match only, case-sensitive, and the
\* greedy .* runs to the last period of the line
replaceForPeriod(s) ==
    LET at == {i \in 1..Len(s) : /\ MatchesAt(s, i, For)
                                 /\ PositionsOf(s, ".", i + 3, DotStarEnd(s, i + 3)) # {}}
    IN  IF at = {} THEN s
        ELSE Cut(s, Min(at), Max(PositionsOf(s, ".", Min(at) + 3, DotStarEnd(s, Min(at) + 3))))

\* .replace(/\./gmi, '')
replacePeriods(s) == SelectSeq(s, LAMBDA c : c # ".")

\* .replace(/\s/g, ',')
replaceSpaces(s) == [i \in 1..Len(s) |-> IF IsSpace(s[i]) THEN "," ELSE s[i]]

\* function cleanProps(props): the chain of replacements, the split, and
\* _.without(_props, '')
cleanProps(s) ==
    without(splitComma(replaceSpaces(trim(replacePeriods(
                replaceForPeriod(replaceForComma(s)))))), <<>>)

\* the match of /(?:Props:?\s+)(.*)\.?/mi: the leftmost Props followed by an
\* optional colon and white space; \s+ takes the whole run of white space (line
\* breaks too), the greedy (.*) takes the rest of the line, its period included
propsRegexFrom(s) ==
    {i \in 1..Len(s) :
        /\ MatchesAtI(s, i, <<"p","r","o","p","s">>)
        /\ LET j == IF i + 5 <= Len(s) /\ s[i + 5] = ":" THEN i + 6 ELSE i + 5
           IN  j <= Len(s) /\ IsSpace(s[j])}

\* the first position of the group (.*) of the match that starts at i
propsGroupStart(s, i) ==
    LET j == IF s[i + 5] = ":" THEN i + 6 ELSE i + 5
        rest == {k \in j..Len(s) : ~IsSpace(s[k])}
    IN  IF rest = {} THEN Len(s) + 1 ELSE Min(rest)

\* props = description.match(propsRegex); changeset.props = cleanProps(props[1])
cleanPropsOf(s) ==
    LET at == propsRegexFrom(s)
    IN  IF at = {} THEN <<>>
        ELSE LET g == propsGroupStart(s, Min(at))
             IN  cleanProps(SubSeq(s, g, DotStarEnd(s, g)))

\* .replace(propsRegex, '') of that version
replacePropsClean(s) ==
    LET at == propsRegexFrom(s)
    IN  IF at = {} THEN s
        ELSE Cut(s, Min(at), DotStarEnd(s, propsGroupStart(s, Min(at))))

\* the description and the props of one log text, as parse_logs.js computes them
descriptionOf(s) ==
    LET base == replaceSee(replaceFixes(s))
    IN  [props       |-> propsOf(base),
         description |-> trim(replaceNewlines(replaceProps(base)))]

\* the description and the props of one log text, as the version with
\* cleanProps computes them
descriptionOfClean(s) ==
    LET base == replaceSee(replaceFixes(s))
    IN  [props       |-> cleanPropsOf(base),
         description |-> trim(replaceNewlines(replacePropsClean(base)))]

(***************************************************************************)
(* async.each: the final callback runs once every iterator has called back *)
(***************************************************************************)
\* the inner async.each is over changeset.related: whether it has finished
relatedFinished(changeset, count) == count >= Len(changeset.related)

\* a final callback that runs as soon as one changeset has finished
changesetsFinished_first(list, count) == count >= 1 \/ Len(list) = 0

\* the outer async.each is over changesets: whether it has finished
changesetsFinished(list, count) == count >= Len(list)

\* the requests of gatherComponents: <<c, r>> is for changesets[c].related[r]
requestsOf(list) == {<<c, r>> : c \in 1..Len(list), r \in 1..2} \cap
                    {q \in (1..Len(list)) \X (1..2) : q[2] <= Len(list[q[1]].related)}

(***************************************************************************)
(* The state machine.                                                      *)
(***************************************************************************)
\* no text function has been applied
NotParsed == [by |-> "none", props |-> <<>>, description |-> <<>>]

Init ==
    /\ pc = "download"
    /\ logHTML = <<>>
    /\ changesets = <<>>
    /\ pending = {}
    /\ completed = <<>>
    /\ changesetsDone = 0
    /\ component = <<>>
    /\ categories = <<>>
    /\ changesetOutput = <<>>
    /\ props = <<>>
    /\ propsOutput = <<>>
    /\ rendered = 0
    /\ fetched = <<>>
    /\ errorReported = FALSE
    /\ rawText = <<>>
    /\ parsed = NotParsed

\* logCallback() called after the if, for a failed download too
afterDownload_always(response) == "buildChangesets"

\* where async.series stands after the callback of the log request: logCallback()
\* is called in the success branch only, and nothing runs after the error branch
afterDownload(response) ==
    IF succeeded(response) THEN "buildChangesets" ELSE "aborted"

\* the callback of request(logPath, ...), the first task of async.series
DownloadCallback(response) ==
    /\ pc = "download"
    /\ IF succeeded(response)
       THEN /\ logHTML' = response.body
            /\ UNCHANGED errorReported
       ELSE /\ errorReported' = TRUE
            /\ UNCHANGED logHTML
    /\ pc' = afterDownload(response)
    /\ UNCHANGED <<changesets, pending, completed, changesetsDone, component,
                   categories, changesetOutput, props, propsOutput, rendered, fetched>>
    /\ UNCHANGED textVars

\* buildChangesets(buildCallback), the second task
BuildChangesets ==
    /\ pc = "buildChangesets"
    /\ changesets' = extractFrom(logHTML, 0, changesets)
    /\ pc' = "gatherComponents"
    /\ UNCHANGED <<logHTML, pending, completed, changesetsDone, component,
                   categories, changesetOutput, props, propsOutput, rendered, fetched,
                   errorReported>>
    /\ UNCHANGED textVars

\* gatherComponents(gatherCallback), the third task: every request is issued;
\* a changeset with no related ticket calls changesetCallback at once
GatherComponents ==
    /\ pc = "gatherComponents"
    /\ pending' = requestsOf(changesets)
    /\ completed' = [c \in 1..Len(changesets) |-> 0]
    /\ fetched' = [c \in 1..Len(changesets) |->
                      [r \in 1..Len(changesets[c].related) |->
                          [state |-> "pending", component |-> <<>>]]]
    /\ LET finished == Cardinality({c \in 1..Len(changesets) :
                                       relatedFinished(changesets[c], 0)})
       IN  /\ changesetsDone' = finished
           /\ pc' = IF changesetsFinished(changesets, finished)
                    THEN "buildOutput" ELSE "waiting"
    /\ UNCHANGED <<logHTML, changesets, component, categories, changesetOutput,
                   props, propsOutput, rendered, errorReported>>
    /\ UNCHANGED textVars

\* relatedCallback() called inside the if, for a successful response only
callsBack_onSuccess(response) == succeeded(response)

\* relatedCallback() follows the if: it is called for every response
callsBack(response) == TRUE

\* a push that reads the shared variable before this callback has assigned it
pushedComponent_stale(shared, body) == shared

\* component = $.load(body)(...).text().trim(); changeset.component.push(component):
\* the assignment and the push are two statements of one callback, which runs
\* to completion, so the value pushed is the one just assigned
pushedComponent(shared, body) == body

\* the callback of request(ticketPath + ticket, ...) for changesets[c].related[r]
FetchCallback(c, r, response) ==
    /\ <<c, r>> \in pending
    /\ pending' = pending \ {<<c, r>>}
    /\ IF succeeded(response)
       THEN /\ component' = response.body
            /\ changesets' = [changesets EXCEPT ![c].component =
                                  Append(@, pushedComponent(component, response.body))]
            /\ fetched' = [fetched EXCEPT
                              ![c][r] = [state |-> "ok", component |-> response.body]]
       ELSE /\ fetched' = [fetched EXCEPT
                              ![c][r] = [state |-> "failed", component |-> <<>>]]
            /\ UNCHANGED <<component, changesets>>
    /\ completed' = [completed EXCEPT ![c] = IF callsBack(response) THEN @ + 1 ELSE @]
    /\ LET finished == IF /\ callsBack(response)
                          /\ relatedFinished(changesets[c], completed'[c])
                       THEN changesetsDone + 1 ELSE changesetsDone
       IN  /\ changesetsDone' = finished
           /\ pc' = IF pc = "waiting" /\ finished # changesetsDone
                       /\ changesetsFinished(changesets, finished)
                    THEN "buildOutput" ELSE pc
    /\ UNCHANGED <<logHTML, categories, changesetOutput, props, propsOutput, rendered,
                   errorReported>>
    /\ UNCHANGED textVars

\* the callback of any request that is outstanding, with any answer
TicketCallback ==
    \E q \in pending : \E response \in TicketResponses :
        FetchCallback(q[1], q[2], response)

\* buildOutput(outputCallback), the fourth task
BuildOutput ==
    /\ pc = "buildOutput"
    /\ \E mapped \in {mapItems(changesets, 1, <<>>)} :
          IF mapped.threw
          THEN /\ pc' = "threw"
               /\ UNCHANGED <<categories, changesetOutput, props, propsOutput, rendered>>
          ELSE \E sections \in {sectionsOf(changesets, mapped.value)} :
               \E collected \in {collectProps(changesets, sections)} :
               \E sorted \in {sort(collected)} :
               \E credits \in {uniq(sorted)} :
                  /\ categories' = mapped.value
                  /\ changesetOutput' = sections
                  /\ props' = credits
                  /\ propsOutput' = formatThanks(credits)
                  /\ rendered' = rendered + 1
                  /\ pc' = "done"
    /\ UNCHANGED <<logHTML, changesets, pending, completed, changesetsDone,
                   component, fetched, errorReported>>
    /\ UNCHANGED textVars

Next ==
    \/ \E response \in LogResponses : DownloadCallback(response)
    \/ BuildChangesets
    \/ GatherComponents
    \/ TicketCallback
    \/ BuildOutput

Spec == Init /\ [][Next]_vars

\* every request that was issued calls back, and async.series runs the next
\* task when the one before it has called back
Fairness ==
    /\ WF_vars(BuildChangesets)
    /\ WF_vars(GatherComponents)
    /\ WF_vars(TicketCallback)
    /\ WF_vars(BuildOutput)

FairSpec == Spec /\ Fairness

(***************************************************************************)
(* The text functions on their own: the props segments and the log texts   *)
(* they are applied to.                                                    *)
(***************************************************************************)
\* the handles "al" and "bo"
Handles == {<<"a","l">>, <<"b","o">>}

\* " for x", the qualifier that may follow a handle
Qualifier == <<" ","f","o","r"," ","x">>

\* an entry of a props segment: a handle, with or without a qualifier
Entries == [handle : Handles, qualified : BOOLEAN]

EntryLists == SeqsUpTo(Entries, MaxNames) \ {<<>>}

entryText(e) == IF e.qualified THEN e.handle \o Qualifier ELSE e.handle

\* the segment a commit message writes for these entries, as the props
\* expression captures it: "al, bo for x, al."
segmentOf(entries) ==
    join([i \in 1..Len(entries) |-> entryText(entries[i])], <<",", " ">>) \o <<".">>

PropsSegments == {segmentOf(entries) : entries \in EntryLists}

\* the lines a log text may hold after its first:
\* "", "Fixes #7.", "See #3." and "Props al, bo for x."
Lines == { <<>>,
           <<"F","i","x","e","s"," ","#","7",".">>,
           <<"S","e","e"," ","#","3",".">>,
           <<"P","r","o","p","s"," ","a","l",","," ","b","o"," ","f","o","r"," ","x",".">> }

\* "Do y." followed by the lines, each on a line of its own
logTextOf(lines) ==
    <<"D","o"," ","y",".">> \o
        join([i \in 1..Len(lines) |-> <<"\n">> \o lines[i]], <<>>)

LogTexts == {logTextOf(lines) : lines \in SeqsUpTo(Lines, MaxLines)}

TextInit ==
    /\ pc = "download"
    /\ logHTML = <<>>
    /\ changesets = <<>>
    /\ pending = {}
    /\ completed = <<>>
    /\ changesetsDone = 0
    /\ component = <<>>
    /\ categories = <<>>
    /\ changesetOutput = <<>>
    /\ props = <<>>
    /\ propsOutput = <<>>
    /\ rendered = 0
    /\ fetched = <<>>
    /\ errorReported = FALSE
    /\ rawText \in PropsSegments \cup LogTexts
    /\ parsed = NotParsed

programVars == <<pc, logHTML, changesets, pending, completed, changesetsDone,
                 component, categories, changesetOutput, props, propsOutput,
                 rendered, fetched, errorReported>>

\* cleanProps(props) applied to a props segment
CleanProps ==
    /\ parsed.by = "none"
    /\ rawText \in PropsSegments
    /\ parsed' = [by |-> "cleanProps", props |-> cleanProps(rawText),
                  description |-> <<>>]
    /\ UNCHANGED <<rawText, programVars>>

\* the description steps of buildChangesets in parse_logs.js applied to a log text
Describe ==
    /\ parsed.by = "none"
    /\ rawText \in LogTexts
    /\ \E d \in {descriptionOf(rawText)} :
          parsed' = [by |-> "parse_logs", props |-> d.props,
                     description |-> d.description]
    /\ UNCHANGED <<rawText, programVars>>

\* the description steps of buildChangesets in the version with cleanProps
DescribeClean ==
    /\ parsed.by = "none"
    /\ rawText \in LogTexts
    /\ \E d \in {descriptionOfClean(rawText)} :
          parsed' = [by |-> "cleanProps version", props |-> d.props,
                     description |-> d.description]
    /\ UNCHANGED <<rawText, programVars>>

TextNext ==
    \/ CleanProps
    \/ Describe
    \/ DescribeClean

TextSpec == TextInit /\ [][TextNext]_vars

(***************************************************************************)
(* Properties.                                                             *)
(***************************************************************************)
\* buildChangesets has run
Extracted == pc \in {"gatherComponents", "waiting", "buildOutput", "done"}

\* changeset k as buildChangesets pushed it, before any component was appended
asExtracted(k) == [changesets[k] EXCEPT !.component = <<>>]

\* C1: a log of n rows yields exactly n \div 2 changesets, the k-th built from
\* the k-th pair of rows (revision and author from the first row of the pair,
\* tickets, props and description from the second), in row order; a trailing
\* unmatched row yields nothing and the changesets before it are kept.
C1_OneChangesetPerRowPair ==
    Extracted =>
        /\ Len(changesets) = Len(logHTML) \div 2
        /\ \A k \in 1..Len(changesets) :
              /\ asExtracted(k) = changesetOf(logHTML[2 * k - 1], logHTML[2 * k])
              /\ changesets[k].revision = replaceRevision(trim(logHTML[2 * k - 1].rev))
              /\ changesets[k].author = trim(logHTML[2 * k - 1].author)
              /\ changesets[k].related = relatedOf(logHTML[2 * k].log)

\* C1 witness: a log of three rows, whose third row is dropped, with the
\* changeset of the first two rows kept
C1_Witness ==
    /\ Extracted
    /\ Len(logHTML) = 3
    /\ Len(changesets) = 1
    /\ logHTML[3] = RowBob
    /\ changesets[1].author = <<"a","l">>
    /\ changesets[1].related = << <<"7">>, <<"3">> >>

\* the number of elements of seq that equal x
Count(seq, x) == Cardinality({i \in 1..Len(seq) : seq[i] = x})

\* the component names the successful fetches of changeset c returned, in the
\* order of its related tickets
Successes(c) ==
    LET ok == SelectSeq(fetched[c], LAMBDA f : f.state = "ok")
    IN  [i \in 1..Len(ok) |-> ok[i].component]

\* changeset c has a line in some section of the report
IsRendered(c) ==
    \E n \in 1..Len(changesetOutput) :
        \E k \in 1..Len(changesetOutput[n].items) :
            /\ changesetOutput[n].items[k] = c
            /\ changesetOutput[n].lines[k] = lineOf(changesets[c])

\* C2: a failed ticket fetch (error or a status other than 200) is not fatal.
\* Provided every request calls back, the run that has extracted its changesets
\* reaches the end with the report rendered once; the report is never rendered
\* twice; at the end every changeset is in the report, and the components of a
\* changeset are exactly the names its successful fetches returned (a failed
\* fetch adds nothing and takes nothing away).
C2_FailedFetchIsNotFatal ==
    /\ [](rendered <= 1)
    /\ [](pc = "done" =>
             /\ rendered = 1
             /\ \A c \in 1..Len(changesets) :
                   /\ IsRendered(c)
                   /\ Len(changesets[c].component) = Len(Successes(c))
                   /\ \A name \in Components :
                         Count(changesets[c].component, name) = Count(Successes(c), name))
    /\ (Extracted ~> (pc = "done" /\ rendered = 1))

\* C2 witness: the run has ended with a changeset whose first fetch failed and
\* whose second fetch succeeded and gave its only component, and another
\* changeset in the report
C2_Witness ==
    /\ pc = "done"
    /\ rendered = 1
    /\ Len(changesets) = 2
    /\ Len(fetched[1]) = 2
    /\ fetched[1][1].state = "failed"
    /\ fetched[1][2].state = "ok"
    /\ changesets[1].component = <<fetched[1][2].component>>
    /\ IsRendered(1) /\ IsRendered(2)

\* the section of the report that holds changeset c
SectionsWith(c) ==
    {n \in 1..Len(changesetOutput) :
        \E k \in 1..Len(changesetOutput[n].items) : changesetOutput[n].items[k] = c}

Heading(name) == <<"#","#","#"," ">> \o name

\* C3: a changeset whose components are empty when the report is rendered is
\* in the bucket keyed "Misc" and under a section headed "Misc".
C3_EmptyComponentsUnderMisc ==
    pc = "done" =>
        \A c \in 1..Len(changesets) :
            changesets[c].component = <<>> =>
                /\ \E k \in 1..Len(categories) :
                      /\ categories[k].key = Misc
                      /\ \E i \in 1..Len(categories[k].items) : categories[k].items[i] = c
                /\ \E n \in SectionsWith(c) : changesetOutput[n].heading = Heading(Misc)

\* C4: the bucket key is the first component only: two changesets whose
\* components have the same first element are in the same section, and the
\* heading of that section is that first component.
C4_BucketKeyIsFirstComponent ==
    pc = "done" =>
        \A c, d \in 1..Len(changesets) :
            ( /\ changesets[c].component # <<>>
              /\ changesets[d].component # <<>>
              /\ changesets[c].component[1] = changesets[d].component[1] ) =>
                /\ SectionsWith(c) = SectionsWith(d)
                /\ \A n \in SectionsWith(c) :
                      changesetOutput[n].heading = Heading(changesets[c].component[1])

\* C5: after the resolve stage the components of a changeset are the names of
\* its successfully fetched tickets in the order of related, whatever the
\* order in which the callbacks ran.
C5_ComponentsInRelatedOrder ==
    pc \in {"buildOutput", "done"} =>
        \A c \in 1..Len(changesets) : changesets[c].component = Successes(c)

\* the order of the stages of async.series
StageOrder ==
    { <<"download", "buildChangesets">>, <<"download", "aborted">>,
      <<"buildChangesets", "gatherComponents">>,
      <<"gatherComponents", "waiting">>, <<"gatherComponents", "buildOutput">>,
      <<"waiting", "buildOutput">>, <<"buildOutput", "done">> }

\* C6: buildOutput starts only when every fetch of every changeset has called
\* back; from then on no changeset is changed; and the stages run in the order
\* download, extract, resolve, render.
C6_RenderAfterAllFetches ==
    /\ [](pc \in {"buildOutput", "done"} =>
             /\ pending = {}
             /\ \A c \in 1..Len(fetched) : \A r \in 1..Len(fetched[c]) :
                   fetched[c][r].state # "pending")
    /\ [][(pc \in {"buildOutput", "done"}) => (changesets' = changesets)]_vars
    /\ [][(pc' # pc) => (<<pc, pc'>> \in StageOrder)]_vars

\* C6 witness: the report is rendered and both changesets have the components
\* of both of their fetches
C6_Witness ==
    /\ pc = "done"
    /\ rendered = 1
    /\ Len(changesets) = 2
    /\ \A c \in 1..2 : Len(changesets[c].related) = 2 /\ Len(changesets[c].component) = 2

\* C7: when the log download fails the run aborts: nothing is extracted, no
\* ticket is fetched, and no report is rendered.
C7_FailedDownloadAborts ==
    errorReported =>
        /\ pc = "aborted"
        /\ logHTML = <<>>
        /\ changesets = <<>>
        /\ pending = {}
        /\ fetched = <<>>
        /\ rendered = 0
        /\ changesetOutput = <<>>
        /\ propsOutput = <<>>

\* C7 witness: the download has failed and the run has stopped
C7_Witness == errorReported /\ pc = "aborted" /\ rendered = 0

\* C8: no two entries of the credit list are equal ignoring case, and the
\* entries are in non-decreasing case-insensitive order.
C8_CreditsDeduplicatedAndSorted ==
    pc = "done" =>
        /\ \A i, j \in 1..Len(props) :
              i < j => toLowerCase(props[i]) # toLowerCase(props[j])
        /\ \A i \in 1..Len(props) - 1 : ~compareBefore(props[i + 1], props[i])

\* C9: with one entry X the credit line is "Thanks to @X for their
\* contributions!"; with two or more it is "Thanks to @", all but the last
\* joined by ", @", then ", and @", the last, " for their contributions!".
C9_CreditLine ==
    pc = "done" =>
        /\ Len(props) = 1 => propsOutput = ThanksTo \o props[1] \o ForTheir
        /\ Len(props) >= 2 =>
              propsOutput = ThanksTo
                  \o join(SubSeq(props, 1, Len(props) - 1), <<",", " ", "@">>)
                  \o AndAt \o props[Len(props)] \o ForTheir

\* C10: the sections are in the order in which their buckets were created,
\* the changesets of a section are in list order, and every changeset is in
\* exactly one section, once.
C10_SectionsInCreationOrder ==
    pc = "done" =>
        /\ Len(changesetOutput) = Len(categories)
        /\ \A n \in 1..Len(changesetOutput) :
              /\ changesetOutput[n].items = categories[n].items
              /\ \A i, j \in 1..Len(changesetOutput[n].items) :
                    i < j => changesetOutput[n].items[i] < changesetOutput[n].items[j]
        /\ \A n, m \in 1..Len(changesetOutput) :
              n < m => changesetOutput[n].items[1] < changesetOutput[m].items[1]
        /\ \A c \in 1..Len(changesets) :
              /\ Cardinality(SectionsWith(c)) = 1
              /\ \A n \in SectionsWith(c) : Count(changesetOutput[n].items, c) = 1

\* the handles of the entries of a props segment, in order
handlesOf(entries) == [i \in 1..Len(entries) |-> entries[i].handle]

\* C11: cleanProps returns exactly the contributor handles of a raw props
\* segment, in order, with no empty token and no period: a qualifier "for ..."
\* is removed only up to its own comma or period, so the handles after it stay.
C11_CleanNameList ==
    parsed.by = "cleanProps" =>
        /\ \A entries \in EntryLists :
              rawText = segmentOf(entries) => parsed.props = handlesOf(entries)
        /\ \A i \in 1..Len(parsed.props) :
              /\ parsed.props[i] # <<>>
              /\ \A k \in 1..Len(parsed.props[i]) : parsed.props[i][k] # "."

\* whether a line of d begins with word (lower case), in any letter case
HasClause(d, word) ==
    \E i \in 1..Len(d) : MatchesAtI(d, i, word) /\ (i = 1 \/ d[i - 1] = "\n")

\* C12: the description of every extracted changeset holds no Fixes, See or
\* Props clause and no run of more than two newlines, and has no white space
\* at either end, whatever the log text (several Fixes, See or Props lines too).
C12_DescriptionNormalized ==
    parsed.by \in {"parse_logs", "cleanProps version"} =>
        /\ ~HasClause(parsed.description, <<"f","i","x","e","s">>)
        /\ ~HasClause(parsed.description, <<"s","e","e">>)
        /\ ~HasClause(parsed.description, <<"p","r","o","p","s">>)
        /\ \A i \in 1..Len(parsed.description) - 2 :
              ~(/\ parsed.description[i] = "\n"
                /\ parsed.description[i + 1] = "\n"
                /\ parsed.description[i + 2] = "\n")
        /\ parsed.description = trim(parsed.description)

\* the requests of changeset c that have been answered with success
Answered(c) == {r \in 1..Len(fetched[c]) : fetched[c][r].state = "ok"}

\* C13: the callbacks of the concurrent fetches share the variable component,
\* yet in every interleaving a step appends to the components of one changeset
\* only, the one whose request is answered in that step, and what it appends is
\* the name that answer carried; once the fetches are issued a changeset has
\* one component per successful fetch of its related tickets, so at most as
\* many as related tickets, and a changeset with no related ticket has no
\* request and no component.
C13_ComponentsStayWithTheirChangeset ==
    /\ [][pc = "waiting" =>
            \A k \in 1..Len(changesets) :
                (changesets'[k].component # changesets[k].component) =>
                    \E r \in 1..Len(changesets[k].related) :
                        /\ <<k, r>> \in pending
                        /\ pending' = pending \ {<<k, r>>}
                        /\ fetched'[k][r].state = "ok"
                        /\ changesets'[k].component =
                               Append(changesets[k].component, fetched'[k][r].component)
                        /\ \A other \in 1..Len(changesets) :
                               other # k =>
                                   changesets'[other].component = changesets[other].component]_vars
    /\ [](pc \in {"waiting", "buildOutput", "done"} =>
             \A c \in 1..Len(changesets) :
                 /\ Len(changesets[c].component) = Cardinality(Answered(c))
                 /\ Len(changesets[c].component) <= Len(changesets[c].related)
                 /\ changesets[c].related = <<>> =>
                        /\ changesets[c].component = <<>>
                        /\ fetched[c] = <<>>
                        /\ \A q \in pending : q[1] # c)

\* C13 witness: callbacks of two changesets have interleaved: each changeset
\* has the name of its own ticket, the shared variable holds the name pushed
\* last, and requests of both changesets are still outstanding
C13_Witness ==
    /\ pc = "waiting"
    /\ Len(changesets) = 2
    /\ changesets[1].component = <<ComponentEd>>
    /\ changesets[2].component = <<Component7>>
    /\ component = Component7
    /\ \E q1, q2 \in pending : q1[1] = 1 /\ q2[1] = 2

\* the credit line names handle h, in any letter case: an @ followed by h and
\* then by the comma or the blank that ends a name
Credits(line, h) ==
    \E i \in 1..Len(line) :
        /\ line[i] = "@"
        /\ i + Len(h) + 1 <= Len(line)
        /\ toLowerCase(SubSeq(line, i + 1, i + Len(h))) = toLowerCase(h)
        /\ line[i + Len(h) + 1] \in {",", " "}

\* C14: the author of every changeset and every handle of every changeset's
\* props is named in the final credit line, up to letter case, whichever
\* section the changeset is in and however the list is sorted, deduplicated
\* and split into all but the last and the last.
C14_EveryoneIsCredited ==
    pc = "done" =>
        \A c \in 1..Len(changesets) :
            /\ Credits(propsOutput, changesets[c].author)
            /\ \A k \in 1..Len(changesets[c].props) :
                  Credits(propsOutput, changesets[c].props[k])

\* C14 witness: two changesets in two sections; the sorted list keeps "Bob"
\* twice around "bob", so the split removes both "Bob" from all but the last
\* and the line still names al, bob and Bob
C14_Witness ==
    /\ pc = "done"
    /\ Len(changesets) = 2
    /\ Len(changesetOutput) = 2
    /\ props = << <<"a","l">>, <<"B","o","b">>, <<"b","o","b">>, <<"B","o","b">> >>
    /\ propsOutput = formatThanks(props)
    /\ Credits(propsOutput, <<"B","o","b">>)
    /\ Credits(propsOutput, <<"a","l">>)

====
